---- MODULE Spec2Model ----
(***************************************************************************)
(* Model of mbart.py: the task resolver model_task_to_src_tgt_lang and the *)
(* MBART wrapper (construction/prepare, predict, predict_offline).         *)
(*                                                                         *)
(* Strings whose characters matter (language codes, input sentences) are   *)
(* sequences of one-character strings; model ids, task names and quantize  *)
(* modes are opaque strings.  The pretrained-model library is an external  *)
(* collaborator: its calls are atomic steps that either return or raise.   *)
(*                                                                         *)
(* The model is of the bodies of the functions.  The return annotation of  *)
(* line 50, Tuple(str, str), is evaluated when the def statement runs and  *)
(* raises a TypeError on import; it is outside every property below.       *)
(***************************************************************************)
EXTENDS Integers, Sequences, FiniteSets, TLC

VARIABLES
    res,      \* one call of model_task_to_src_tgt_lang: arguments and outcome
    pc,       \* position of the constructor / prepare of the one instance
    self,     \* the attributes of the MBART instance
    prep,     \* the locals of prepare: device and model_cls
    err,      \* the exception the constructor raised to its caller
    stdout,   \* lines written by prepare
    gen       \* the generator returned by predict / predict_offline

vars == <<res, pc, self, prep, err, stdout, gen>>

(***************************** bounds **************************************)
MaxInputs == 40
MaxSmallInputs == 2
MaxStride == 3
LenMod == 4

(************************* module-level data *******************************)
ChunkSize == 32

en_XX == <<"e", "n", "_", "X", "X">>
ro_RO == <<"r", "o", "_", "R", "O">>
de_DE == <<"d", "e", "_", "D", "E">>

MBART_MODELS == <<"facebook/mbart-large-en-ro">>

MBART50_MODELS == <<"facebook/mbart-large-50-one-to-many-mmt",
                    "facebook/mbart-large-50-many-to-one-mmt",
                    "facebook/mbart-large-50-many-to-many-mmt">>

M2M100_MODELS == <<"facebook/m2m100_418M",
                   "facebook/m2m100_1.2B",
                   "facebook/m2m100-12B-avg-5-ckpt",
                   "facebook/m2m100-12B-avg-10-ckpt",
                   "facebook/m2m100-12B-last-ckpt",
                   "facebook/wmt21-dense-24-wide-en-x",
                   "facebook/wmt21-dense-24-wide-x-en">>

VALID_MODELS == MBART_MODELS \o MBART50_MODELS \o M2M100_MODELS

\* Python's `x in list`
In(x, list) == \E i \in 1..Len(list) : list[i] = x

\* Python's list[k] with a 0-based index
At(list, k) == list[k + 1]

TASK2SRCTGT ==
    [t \in {"wmt16-en-ro", "wmt16-en-de", "wmt16-ro-en", "wmt16-de-en"} |->
        CASE t = "wmt16-en-ro" -> [src_lang |-> en_XX, tgt_lang |-> ro_RO]
          [] t = "wmt16-en-de" -> [src_lang |-> en_XX, tgt_lang |-> de_DE]
          [] t = "wmt16-ro-en" -> [src_lang |-> ro_RO, tgt_lang |-> en_XX]
          [] t = "wmt16-de-en" -> [src_lang |-> de_DE, tgt_lang |-> en_XX]]

\* dict.get(key): the entry, or None for a missing key
HasKey(d, k) == k \in DOMAIN d

\* Python's s[:k]
Prefix(s, k) == SubSeq(s, 1, IF Len(s) < k THEN Len(s) ELSE k)

(********************* model_task_to_src_tgt_lang **************************)
\* Outcome of a call: the returned pair, or the exception raised.
Return(src, tgt) ==
    [exc |-> "none", ret |-> <<src, tgt>>,
     msg |-> [model |-> "", what |-> "", code |-> <<>>]]

Raise(exc, model, what, code) ==
    [exc |-> exc, ret |-> <<>>,
     msg |-> [model |-> model, what |-> what, code |-> code]]

\* variant: the M2M100 position read as a 1-based index
IsOneToMany_OneBased(model) ==
    (model = At(MBART50_MODELS, 0)) \/ (model = At(M2M100_MODELS, 4))

IsOneToMany(model) ==
    (model = At(MBART50_MODELS, 0)) \/ (model = At(M2M100_MODELS, 5))

IsManyToOne(model) ==
    (model = At(MBART50_MODELS, 1)) \/ (model = At(M2M100_MODELS, 6))

\* variant: only the source code is truncated
TruncateForM2M100_SrcOnly(model, src_lang, tgt_lang) ==
    IF In(model, M2M100_MODELS)
    THEN Return(Prefix(src_lang, 2), tgt_lang)
    ELSE Return(src_lang, tgt_lang)

TruncateForM2M100(model, src_lang, tgt_lang) ==
    IF In(model, M2M100_MODELS)
    THEN Return(Prefix(src_lang, 2), Prefix(tgt_lang, 2))
    ELSE Return(src_lang, tgt_lang)

\* variant: the roster is validated by the resolver itself
model_task_to_src_tgt_lang_Validating(model, task) ==
    IF ~HasKey(TASK2SRCTGT, task)
    THEN Raise("TypeError", "", "", <<>>)
    ELSE IF ~In(model, VALID_MODELS)
    THEN Raise("ValueError", model, "", <<>>)
    ELSE TruncateForM2M100(model, TASK2SRCTGT[task].src_lang,
                           TASK2SRCTGT[task].tgt_lang)

model_task_to_src_tgt_lang(model, task) ==
    IF ~HasKey(TASK2SRCTGT, task)
    THEN \* TASK2SRCTGT.get(task) is None, and None['src_lang'] raises
         Raise("TypeError", "", "", <<>>)
    ELSE
      LET src_lang == TASK2SRCTGT[task].src_lang
          tgt_lang == TASK2SRCTGT[task].tgt_lang
      IN  IF In(model, MBART_MODELS) /\ src_lang # en_XX
          THEN Raise("AssertionError", model, "src_lang", src_lang)
          ELSE IF In(model, MBART_MODELS) /\ tgt_lang # ro_RO
          THEN Raise("AssertionError", model, "tgt_lang", tgt_lang)
          ELSE IF IsOneToMany(model) /\ src_lang # en_XX
          THEN Raise("AssertionError", model, "src_lang", src_lang)
          ELSE IF IsManyToOne(model) /\ tgt_lang # en_XX
          THEN Raise("AssertionError", model, "tgt_lang", tgt_lang)
          ELSE TruncateForM2M100(model, src_lang, tgt_lang)

(************************** inputs of the model ****************************)
UnknownModels == {"facebook/mbart-large-cc25", "t5-small"}
UnknownTasks == {"wmt14-en-fr", ""}

ModelIds == {VALID_MODELS[i] : i \in 1..Len(VALID_MODELS)} \cup UnknownModels
TaskNames == DOMAIN TASK2SRCTGT \cup UnknownTasks
QuantizeModes == {"fp16", "bf16", "bb8", "bb4", "", "FP16", "int8"}

(******************************* state *************************************)
NotCalled == [exc |-> "pending", ret |-> <<>>,
              msg |-> [model |-> "", what |-> "", code |-> <<>>]]

NoRes == [model |-> "", task |-> "", out |-> NotCalled]

NoTokenizer == [name |-> "", kind |-> "", src_lang |-> <<>>, tgt_lang |-> <<>>]

NoModel == [cls |-> "", name |-> "", torch_dtype |-> "", load_in |-> "",
            device_map |-> "", moved_to |-> "", device |-> "",
            eval |-> FALSE]

NoSelf == [_pretrained_model_name_or_path |-> "", _task |-> "",
           _quantize_mode |-> "", src_lang |-> <<>>, tgt_lang |-> <<>>,
           tokenizer |-> NoTokenizer, src_lang_id |-> 0, tgt_lang_id |-> 0,
           additional_args |-> {}, model |-> NoModel]

NoGen == [kind |-> "none", pc |-> "none", inputs |-> <<>>, sorted |-> <<>>,
          next |-> 1, chunk |-> 0, batch |-> <<>>, ids |-> <<>>,
          outputs |-> <<>>, decoded |-> <<>>, idx |-> 1, exc |-> "none",
          ids_device |-> "",
          yielded |-> <<>>, log |-> <<>>]

NoPrep == [device |-> "", model_cls |-> ""]

(******************* specification of the resolver *************************)
InitResolve ==
    /\ \E m \in ModelIds, t \in TaskNames :
          res = [model |-> m, task |-> t, out |-> NotCalled]
    /\ pc = "new" /\ self = NoSelf /\ prep = NoPrep /\ err = "none"
    /\ stdout = <<>> /\ gen = NoGen

Resolve ==
    /\ res.out = NotCalled
    /\ res' = [res EXCEPT !.out = model_task_to_src_tgt_lang(res.model, res.task)]
    /\ UNCHANGED <<pc, self, prep, err, stdout, gen>>

NextResolve == Resolve

SpecResolve == InitResolve /\ [][NextResolve]_vars

(*************************** MBART.__init__ ********************************)
Family(name) ==
    IF In(name, MBART_MODELS) THEN "MBART"
    ELSE IF In(name, MBART50_MODELS) THEN "MBART50"
    ELSE IF In(name, M2M100_MODELS) THEN "M2M100"
    ELSE "unknown"

\* AutoTokenizer.from_pretrained picks the tokenizer class of the checkpoint;
\* for an id outside the rosters it is whatever that checkpoint declares.
TokenizerKinds(name) ==
    CASE Family(name) = "MBART" -> {"MBartTokenizer"}
      [] Family(name) = "MBART50" -> {"MBart50Tokenizer"}
      [] Family(name) = "M2M100" -> {"M2M100Tokenizer"}
      [] OTHER -> {"MBartTokenizer", "T5Tokenizer"}

\* tokenizer.lang_code_to_id of the MBart and MBart50 tokenizers
lang_code_to_id(code) ==
    CASE code = en_XX -> 250004
      [] code = ro_RO -> 250020
      [] code = de_DE -> 250003
      [] OTHER -> 0

\* tokenizer.get_lang_id of the M2M100 tokenizer
get_lang_id(code) ==
    CASE code = <<"e", "n">> -> 128022
      [] code = <<"r", "o">> -> 128076
      [] code = <<"d", "e">> -> 128020
      [] OTHER -> 0

\* The id the tokenizer gives for a code; 0 stands for the lookup raising.
LangIdLookup(s, code) ==
    IF In(s._pretrained_model_name_or_path, M2M100_MODELS)
    THEN IF s.tokenizer.kind = "M2M100Tokenizer" THEN get_lang_id(code) ELSE 0
    ELSE IF s.tokenizer.kind \in {"MBartTokenizer", "MBart50Tokenizer"}
         THEN lang_code_to_id(code) ELSE 0

LangIdError(s) ==
    IF In(s._pretrained_model_name_or_path, M2M100_MODELS)
    THEN IF s.tokenizer.kind = "M2M100Tokenizer" THEN "KeyError" ELSE "AttributeError"
    ELSE IF s.tokenizer.kind \in {"MBartTokenizer", "MBart50Tokenizer"}
         THEN "KeyError" ELSE "AttributeError"

Construct(m, t, q) ==
    /\ pc = "new"
    /\ self' = [NoSelf EXCEPT !._pretrained_model_name_or_path = m,
                              !._task = t, !._quantize_mode = q]
    /\ pc' = "device"
    /\ UNCHANGED <<res, prep, err, stdout, gen>>

(***************************** MBART.prepare *******************************)
SelectDevice ==
    /\ pc = "device"
    /\ \E cuda_is_available \in BOOLEAN :
          prep' = [prep EXCEPT !.device =
                      IF cuda_is_available THEN "cuda" ELSE "cpu"]
    /\ pc' = "resolve"
    /\ UNCHANGED <<res, self, err, stdout, gen>>

WithLangs(s, out) ==
    [s EXCEPT !.src_lang = out.ret[1], !.tgt_lang = out.ret[2]]

ResolveLangs ==
    /\ pc = "resolve"
    /\ LET out == model_task_to_src_tgt_lang(self._pretrained_model_name_or_path,
                                             self._task)
       IN  IF out.exc = "none"
           THEN /\ self' = WithLangs(self, out)
                /\ pc' = "tokenizer"
                /\ err' = err
           ELSE /\ pc' = "failed"
                /\ err' = out.exc
                /\ self' = self
    /\ UNCHANGED <<res, prep, stdout, gen>>

WithTokenizer(s, kind) ==
    [s EXCEPT !.tokenizer = [name |-> s._pretrained_model_name_or_path,
                             kind |-> kind,
                             src_lang |-> s.src_lang,
                             tgt_lang |-> s.tgt_lang]]

LoadTokenizer ==
    /\ pc = "tokenizer"
    /\ \E kind \in TokenizerKinds(self._pretrained_model_name_or_path) :
          self' = WithTokenizer(self, kind)
    /\ pc' = "lang_ids"
    /\ UNCHANGED <<res, prep, err, stdout, gen>>

LoadTokenizerFails ==
    /\ pc = "tokenizer"
    /\ pc' = "failed"
    /\ err' = "OSError"
    /\ UNCHANGED <<res, self, prep, stdout, gen>>

WithLangIds(s) ==
    [s EXCEPT !.src_lang_id = LangIdLookup(s, s.src_lang),
              !.tgt_lang_id = LangIdLookup(s, s.tgt_lang)]

LookupLangIds ==
    /\ pc = "lang_ids"
    /\ IF LangIdLookup(self, self.src_lang) = 0
       THEN /\ pc' = "failed"
            /\ err' = LangIdError(self)
            /\ self' = self
       ELSE IF LangIdLookup(self, self.tgt_lang) = 0
       THEN /\ pc' = "failed"
            /\ err' = LangIdError(self)
            /\ self' = [self EXCEPT !.src_lang_id = LangIdLookup(self, self.src_lang)]
       ELSE /\ pc' = "model_cls"
            /\ err' = err
            /\ self' = WithLangIds(self)
    /\ UNCHANGED <<res, prep, stdout, gen>>

\* the model class of MBART_PIPELINE, MBART50_PIPELINE and M2M100_PIPELINE
ModelCls(name) ==
    CASE In(name, MBART_MODELS) -> "MBartForConditionalGeneration"
      [] In(name, MBART50_MODELS) -> "MBartForConditionalGeneration"
      [] In(name, M2M100_MODELS) -> "M2M100ForConditionalGeneration"
      [] OTHER -> ""

\* variant: every family uses forced_bos_token_id
AdditionalArgs_AlwaysForcedBos(name, tgt_lang_id) ==
    {<<"forced_bos_token_id", tgt_lang_id>>}

AdditionalArgs(name, tgt_lang_id) ==
    CASE In(name, MBART_MODELS) -> {<<"decoder_start_token_id", tgt_lang_id>>}
      [] In(name, MBART50_MODELS) -> {<<"forced_bos_token_id", tgt_lang_id>>}
      [] In(name, M2M100_MODELS) -> {<<"forced_bos_token_id", tgt_lang_id>>}
      [] OTHER -> {}

WithAdditionalArgs(s) ==
    [s EXCEPT !.additional_args =
        AdditionalArgs(s._pretrained_model_name_or_path, s.tgt_lang_id)]

\* variant: an unrecognized id falls through to the MBART pipeline
Recognized_Lenient(name) == TRUE

Recognized(name) ==
    In(name, MBART_MODELS) \/ In(name, MBART50_MODELS) \/ In(name, M2M100_MODELS)

SelectModelClass ==
    /\ pc = "model_cls"
    /\ IF Recognized(self._pretrained_model_name_or_path)
       THEN /\ prep' = [prep EXCEPT !.model_cls =
                           ModelCls(self._pretrained_model_name_or_path)]
            /\ self' = WithAdditionalArgs(self)
            /\ pc' = "load"
            /\ err' = err
       ELSE /\ pc' = "failed"
            /\ err' = "ValueError"
            /\ UNCHANGED <<prep, self>>
    /\ UNCHANGED <<res, stdout, gen>>

\* model_cls.from_pretrained(name, ...): weights are loaded on the cpu unless
\* device_map="auto" places them
FromPretrained(cls, name, torch_dtype, load_in, device_map, placed) ==
    [cls |-> cls, name |-> name, torch_dtype |-> torch_dtype,
     load_in |-> load_in, device_map |-> device_map, moved_to |-> "",
     device |-> IF device_map = "auto" THEN placed ELSE "cpu", eval |-> FALSE]

\* model.to(device)
To(model, dev) == [model EXCEPT !.moved_to = dev, !.device = dev]

\* where device_map="auto" may put the weights
AutoPlacements(dev) == {dev, "cpu"}

\* the line written before from_pretrained in each branch
DeclareLine(branch) ==
    CASE branch = "fp16" -> "Declaring fp16 precision model"
      [] branch = "bf16" -> "Declaring bf16 precision model"
      [] branch = "bb8" -> "Declaring 8-bit precision model"
      [] branch = "bb4" -> "Declaring 4-bit precision model"
      [] OTHER -> "No model weight quantization selected. Loading in full-precision"

\* f"{n}-bit Model is on GPU? {self.model.device==device}"
OnGpuLine(branch, same) ==
    CASE branch = "bb8" /\ same -> "8-bit Model is on GPU? True"
      [] branch = "bb8" /\ ~same -> "8-bit Model is on GPU? False"
      [] branch = "bb4" /\ same -> "4-bit Model is on GPU? True"
      [] OTHER -> "4-bit Model is on GPU? False"

\* variant: every unrecognized mode is treated as fp16
LoadBranch_DefaultFp16(q) ==
    IF q \in {"bf16", "bb8", "bb4"} THEN q ELSE "fp16"

\* the branch of the if/elif chain on self._quantize_mode
LoadBranch(q) ==
    IF q \in {"fp16", "bf16", "bb8", "bb4"} THEN q ELSE "full"

LoadedBb8(cls, name, dev, placed) ==
    FromPretrained(cls, name, "", "8bit", "auto", placed)

LoadFp16 ==
    /\ pc = "load"
    /\ LoadBranch(self._quantize_mode) = "fp16"
    /\ stdout' = Append(stdout, DeclareLine("fp16"))
    /\ self' = [self EXCEPT !.model =
                  To(FromPretrained(prep.model_cls,
                                    self._pretrained_model_name_or_path,
                                    "float16", "", "", ""), prep.device)]
    /\ pc' = "eval"
    /\ UNCHANGED <<res, prep, err, gen>>

LoadBf16 ==
    /\ pc = "load"
    /\ LoadBranch(self._quantize_mode) = "bf16"
    /\ stdout' = Append(stdout, DeclareLine("bf16"))
    /\ self' = [self EXCEPT !.model =
                  To(FromPretrained(prep.model_cls,
                                    self._pretrained_model_name_or_path,
                                    "bfloat16", "", "", ""), prep.device)]
    /\ pc' = "eval"
    /\ UNCHANGED <<res, prep, err, gen>>

LoadBb8 ==
    /\ pc = "load"
    /\ LoadBranch(self._quantize_mode) = "bb8"
    /\ \E placed \in AutoPlacements(prep.device) :
          LET model == LoadedBb8(prep.model_cls,
                                 self._pretrained_model_name_or_path,
                                 prep.device, placed)
          IN  /\ self' = [self EXCEPT !.model = model]
              /\ stdout' = stdout \o
                    <<DeclareLine("bb8"),
                      OnGpuLine("bb8", model.device = prep.device)>>
    /\ pc' = "eval"
    /\ UNCHANGED <<res, prep, err, gen>>

LoadBb4 ==
    /\ pc = "load"
    /\ LoadBranch(self._quantize_mode) = "bb4"
    /\ \E placed \in AutoPlacements(prep.device) :
          LET model == FromPretrained(prep.model_cls,
                                      self._pretrained_model_name_or_path,
                                      "", "4bit", "auto", placed)
          IN  /\ self' = [self EXCEPT !.model = model]
              /\ stdout' = stdout \o
                    <<DeclareLine("bb4"),
                      OnGpuLine("bb4", model.device = prep.device)>>
    /\ pc' = "eval"
    /\ UNCHANGED <<res, prep, err, gen>>

LoadFull ==
    /\ pc = "load"
    /\ LoadBranch(self._quantize_mode) = "full"
    /\ stdout' = Append(stdout, DeclareLine("full"))
    /\ self' = [self EXCEPT !.model =
                  To(FromPretrained(prep.model_cls,
                                    self._pretrained_model_name_or_path,
                                    "", "", "", ""), prep.device)]
    /\ pc' = "eval"
    /\ UNCHANGED <<res, prep, err, gen>>

\* from_pretrained raises: nothing is assigned to self.model
LoadWeightsFails ==
    /\ pc = "load"
    /\ stdout' = Append(stdout, DeclareLine(LoadBranch(self._quantize_mode)))
    /\ pc' = "failed"
    /\ err' = "OSError"
    /\ UNCHANGED <<res, self, prep, gen>>

SetEval ==
    /\ pc = "eval"
    /\ self' = [self EXCEPT !.model.eval = TRUE]
    /\ pc' = "prepared"
    /\ UNCHANGED <<res, prep, err, stdout, gen>>

(********************* the pretrained-model library ************************)
PAD == 1
EOS == 2

CharTok(c) == CASE c = " " -> 5 [] c = "a" -> 6 [] OTHER -> 7

TokChar(t) == CASE t = 15 -> " " [] t = 16 -> "A" [] OTHER -> "B"

IsSourceToken(t) == t \in 5..7

IsTargetToken(t) == t \in 15..17

SeqMax(lens) ==
    IF lens = {} THEN 0 ELSE CHOOSE x \in lens : \A y \in lens : y <= x

SeqMin(lens) == CHOOSE x \in lens : \A y \in lens : x <= y

PadTo(row, n) == row \o [i \in 1..(n - Len(row)) |-> PAD]

PadBatch(rows) ==
    LET width == SeqMax({Len(rows[i]) : i \in 1..Len(rows)})
    IN  [i \in 1..Len(rows) |-> PadTo(rows[i], width)]

\* one sentence as token ids, closed by </s> and the source language id
EncodeRow(s, text) ==
    [j \in 1..Len(text) |-> CharTok(text[j])] \o <<EOS, s.src_lang_id>>

\* tokenizer.batch_encode_plus(batch, padding=True, return_tensors="pt")
batch_encode_plus(s, batch) ==
    PadBatch([i \in 1..Len(batch) |-> EncodeRow(s, batch[i])])

\* the first tokens of a generated row under the control argument
DecoderPrefix(args) ==
    IF \E a \in args : a[1] = "decoder_start_token_id"
    THEN <<(CHOOSE a \in args : a[1] = "decoder_start_token_id")[2]>>
    ELSE IF \E a \in args : a[1] = "forced_bos_token_id"
    THEN <<EOS, (CHOOSE a \in args : a[1] = "forced_bos_token_id")[2]>>
    ELSE <<EOS>>

GenerateRow(row, args) ==
    LET source == SelectSeq(row, IsSourceToken)
    IN  DecoderPrefix(args) \o [j \in 1..Len(source) |-> source[j] + 10] \o <<EOS>>

\* model.generate(inputs, **additional_args): one output row per input row
generate(ids, args) ==
    PadBatch([i \in 1..Len(ids) |-> GenerateRow(ids[i], args)])

DecodeRow(row) ==
    LET target == SelectSeq(row, IsTargetToken)
    IN  [j \in 1..Len(target) |-> TokChar(target[j])]

\* tokenizer.batch_decode(outputs, skip_special_tokens=True)
batch_decode(outputs) == [i \in 1..Len(outputs) |-> DecodeRow(outputs[i])]

\* str.strip()
Strip(text) ==
    LET keep == {i \in 1..Len(text) : text[i] # " "}
    IN  IF keep = {} THEN <<>> ELSE SubSeq(text, SeqMin(keep), SeqMax(keep))

(************************* the caller's inputs *****************************)
InputChar(k) == CASE k = 0 -> " " [] k = 1 -> "a" [] OTHER -> "b"

InputText(i, len) == [j \in 1..len |-> InputChar((i + j) % 3)]

\* n sentences whose lengths cycle with the given stride
Inputs(n, stride) == [i \in 1..n |-> InputText(i, (i * stride + 1) % LenMod)]

SmallInputs == {Inputs(n, k) : n \in 0..MaxSmallInputs, k \in 0..MaxStride}

LargeInputs ==
    {Inputs(n, k) : n \in (0..MaxInputs) \cup {2 * ChunkSize, 2 * ChunkSize + 1},
                    k \in 0..MaxStride}

(******************* MBART.predict / predict_offline ***********************)
Event(op, ok) ==
    [op |-> op, chunk |-> gen.chunk, size |-> Len(gen.batch),
     args |-> IF op = "generate" THEN self.additional_args ELSE {},
     yielded |-> Len(gen.yielded), ok |-> ok]

\* variant: elements of equal length come out in reverse order
Bucket_Reversed(list, len) ==
    LET same == SelectSeq(list, LAMBDA x : Len(x) = len)
    IN  [i \in 1..Len(same) |-> same[Len(same) + 1 - i]]

\* the elements of the given length, in the order they have in the list
Bucket(list, len) == SelectSeq(list, LAMBDA x : Len(x) = len)

RECURSIVE BucketsFrom(_, _)
\* the elements of length len or more, shorter ones first
BucketsFrom(list, len) ==
    IF len > SeqMax({Len(list[i]) : i \in 1..Len(list)}) THEN <<>>
    ELSE Bucket(list, len) \o BucketsFrom(list, len + 1)

\* sorted(inputs, key=len): ascending length, stable
sorted(inputs) == BucketsFrom(inputs, 0)

\* the next list of more_itertools.chunked(inputs, n), read from position next
chunked(list, n, next) ==
    SubSeq(list, next, IF next + n - 1 < Len(list) THEN next + n - 1 ELSE Len(list))

GenIdle == gen.pc \in {"none", "done", "raised"}

CallPredict(inputs) ==
    /\ pc = "prepared"
    /\ GenIdle
    /\ gen' = [NoGen EXCEPT !.kind = "predict", !.pc = "created",
                            !.inputs = inputs]
    /\ UNCHANGED <<res, pc, self, prep, err, stdout>>

CallPredictOffline(inputs) ==
    /\ pc = "prepared"
    /\ GenIdle
    /\ gen' = [NoGen EXCEPT !.kind = "predict_offline", !.pc = "created",
                            !.inputs = inputs]
    /\ UNCHANGED <<res, pc, self, prep, err, stdout>>

\* variant: predict works on the first chunk of its input only
ConsumerNext_Chunked ==
    /\ gen.pc \in {"created", "suspended"}
    /\ gen' = IF gen.pc = "suspended" THEN [gen EXCEPT !.pc = "loop"]
              ELSE IF gen.kind = "predict"
              THEN [gen EXCEPT !.pc = "encode", !.chunk = 1,
                               !.batch = chunked(gen.inputs, ChunkSize, 1)]
              ELSE [gen EXCEPT !.pc = "sort"]
    /\ UNCHANGED <<res, pc, self, prep, err, stdout>>

\* the consumer asks for the next item: the generator body runs on
ConsumerNext ==
    /\ gen.pc \in {"created", "suspended"}
    /\ gen' = IF gen.pc = "suspended" THEN [gen EXCEPT !.pc = "loop"]
              ELSE IF gen.kind = "predict"
              THEN [gen EXCEPT !.pc = "encode", !.batch = gen.inputs, !.chunk = 1]
              ELSE [gen EXCEPT !.pc = "sort"]
    /\ UNCHANGED <<res, pc, self, prep, err, stdout>>

Sort ==
    /\ gen.pc = "sort"
    /\ gen' = [gen EXCEPT !.sorted = sorted(gen.inputs), !.next = 1,
                          !.pc = "batches"]
    /\ UNCHANGED <<res, pc, self, prep, err, stdout>>

\* for batch in batches: the next chunk, or the end of the generator
TakeChunk ==
    /\ gen.pc = "batches"
    /\ gen' = IF gen.next > Len(gen.sorted)
              THEN [gen EXCEPT !.pc = "done"]
              ELSE LET batch == chunked(gen.sorted, ChunkSize, gen.next)
                   IN  [gen EXCEPT !.batch = batch,
                                   !.next = gen.next + Len(batch),
                                   !.chunk = gen.chunk + 1,
                                   !.pc = "encode"]
    /\ UNCHANGED <<res, pc, self, prep, err, stdout>>

Encode ==
    /\ gen.pc = "encode"
    /\ gen' = [gen EXCEPT !.ids = batch_encode_plus(self, gen.batch),
                          !.ids_device = self.model.device,
                          !.log = Append(gen.log, Event("encode", TRUE)),
                          !.pc = "generate"]
    /\ UNCHANGED <<res, pc, self, prep, err, stdout>>

Generate ==
    /\ gen.pc = "generate"
    /\ gen' = [gen EXCEPT !.outputs = generate(gen.ids, self.additional_args),
                          !.log = Append(gen.log, Event("generate", TRUE)),
                          !.pc = "decode"]
    /\ UNCHANGED <<res, pc, self, prep, err, stdout>>

\* variant: the next chunk is encoded before the current one is handed out
Decode_Prefetch ==
    /\ gen.pc = "decode"
    /\ gen' = [gen EXCEPT !.decoded = batch_decode(gen.outputs),
                          !.idx = 1,
                          !.log = gen.log \o
                              <<Event("decode", TRUE),
                                [Event("encode", TRUE) EXCEPT !.chunk = gen.chunk + 1]>>,
                          !.pc = "loop"]
    /\ UNCHANGED <<res, pc, self, prep, err, stdout>>

Decode ==
    /\ gen.pc = "decode"
    /\ gen' = [gen EXCEPT !.decoded = batch_decode(gen.outputs),
                          !.idx = 1,
                          !.log = Append(gen.log, Event("decode", TRUE)),
                          !.pc = "loop"]
    /\ UNCHANGED <<res, pc, self, prep, err, stdout>>

\* variant: the failure is swallowed and the loop goes on with no outputs
Raised_Swallowed(op) ==
    [gen EXCEPT !.pc = "loop", !.decoded = <<>>, !.idx = 1,
                !.log = Append(gen.log, Event(op, FALSE))]

\* the generator after an upstream call raised: the exception reaches the
\* consumer and the generator is finished
Raised(op) ==
    [gen EXCEPT !.pc = "raised", !.exc = "UpstreamError",
                !.log = Append(gen.log, Event(op, FALSE))]

UpstreamFails ==
    /\ gen.pc \in {"encode", "generate", "decode"}
    /\ gen' = Raised(gen.pc)
    /\ UNCHANGED <<res, pc, self, prep, err, stdout>>

\* for output in outputs: yield output.strip()
YieldOutput ==
    /\ gen.pc = "loop"
    /\ gen.idx <= Len(gen.decoded)
    /\ gen' = [gen EXCEPT !.yielded = Append(gen.yielded, Strip(gen.decoded[gen.idx])),
                          !.idx = gen.idx + 1,
                          !.log = Append(gen.log, Event("yield", TRUE)),
                          !.pc = "suspended"]
    /\ UNCHANGED <<res, pc, self, prep, err, stdout>>

\* the inner loop is over: predict returns, predict_offline takes a chunk
OutputsExhausted ==
    /\ gen.pc = "loop"
    /\ gen.idx > Len(gen.decoded)
    /\ gen' = [gen EXCEPT !.pc = IF gen.kind = "predict" THEN "done" ELSE "batches"]
    /\ UNCHANGED <<res, pc, self, prep, err, stdout>>

GeneratorStep ==
    \/ ConsumerNext
    \/ Sort
    \/ TakeChunk
    \/ Encode
    \/ Generate
    \/ Decode
    \/ UpstreamFails
    \/ YieldOutput
    \/ OutputsExhausted

(************************* the life of an instance *************************)
Init ==
    /\ res = NoRes /\ pc = "new" /\ self = NoSelf /\ prep = NoPrep
    /\ err = "none" /\ stdout = <<>> /\ gen = NoGen

Prepare ==
    \/ SelectDevice
    \/ ResolveLangs
    \/ LoadTokenizer
    \/ LoadTokenizerFails
    \/ LookupLangIds
    \/ SelectModelClass
    \/ LoadFp16
    \/ LoadBf16
    \/ LoadBb8
    \/ LoadBb4
    \/ LoadFull
    \/ LoadWeightsFails
    \/ SetEval

Next ==
    \/ \E m \in ModelIds, t \in TaskNames, q \in QuantizeModes : Construct(m, t, q)
    \/ Prepare
    \/ \E inputs \in SmallInputs : CallPredict(inputs)
    \/ \E inputs \in SmallInputs : CallPredictOffline(inputs)
    \/ GeneratorStep

Spec == Init /\ [][Next]_vars

(****************** prediction on a prepared instance **********************)
\* the instance prepare leaves behind for a full-precision load on the cpu
PreparedSelf(m, t) ==
    LET s0 == [NoSelf EXCEPT !._pretrained_model_name_or_path = m, !._task = t]
        s1 == WithLangs(s0, model_task_to_src_tgt_lang(m, t))
        s2 == WithTokenizer(s1, CHOOSE k \in TokenizerKinds(m) : TRUE)
        s3 == WithAdditionalArgs(WithLangIds(s2))
    IN  [s3 EXCEPT !.model =
            [To(FromPretrained(ModelCls(m), m, "", "", "", ""), "cpu")
                EXCEPT !.eval = TRUE]]

PreparedConfigs ==
    {<<"facebook/mbart-large-en-ro", "wmt16-en-ro">>,
     <<"facebook/m2m100_418M", "wmt16-de-en">>}

InitPredict ==
    /\ \E c \in PreparedConfigs :
          /\ self = PreparedSelf(c[1], c[2])
          /\ prep = [device |-> "cpu", model_cls |-> ModelCls(c[1])]
    /\ pc = "prepared" /\ res = NoRes /\ err = "none"
    /\ stdout = <<DeclareLine("full")>> /\ gen = NoGen

NextPredict ==
    \/ \E inputs \in LargeInputs : CallPredict(inputs)
    \/ \E inputs \in LargeInputs : CallPredictOffline(inputs)
    \/ GeneratorStep

SpecPredict == InitPredict /\ [][NextPredict]_vars

(********************* properties of the resolver **************************)
Resolved == res.out # NotCalled

Rostered(m) ==
    m \in {"facebook/mbart-large-en-ro",
           "facebook/mbart-large-50-one-to-many-mmt",
           "facebook/mbart-large-50-many-to-one-mmt",
           "facebook/mbart-large-50-many-to-many-mmt",
           "facebook/m2m100_418M", "facebook/m2m100_1.2B",
           "facebook/m2m100-12B-avg-5-ckpt", "facebook/m2m100-12B-avg-10-ckpt",
           "facebook/m2m100-12B-last-ckpt",
           "facebook/wmt21-dense-24-wide-en-x",
           "facebook/wmt21-dense-24-wide-x-en"}

InM2M100Roster(m) ==
    m \in {"facebook/m2m100_418M", "facebook/m2m100_1.2B",
           "facebook/m2m100-12B-avg-5-ckpt", "facebook/m2m100-12B-avg-10-ckpt",
           "facebook/m2m100-12B-last-ckpt",
           "facebook/wmt21-dense-24-wide-en-x",
           "facebook/wmt21-dense-24-wide-x-en"}

DefinedTask(t) ==
    t \in {"wmt16-en-ro", "wmt16-en-de", "wmt16-ro-en", "wmt16-de-en"}

TaskSrc(t) ==
    IF t \in {"wmt16-en-ro", "wmt16-en-de"} THEN en_XX
    ELSE IF t = "wmt16-ro-en" THEN ro_RO ELSE de_DE

TaskTgt(t) ==
    IF t \in {"wmt16-ro-en", "wmt16-de-en"} THEN en_XX
    ELSE IF t = "wmt16-en-ro" THEN ro_RO ELSE de_DE

\* The restrictions of a rostered model, as the claim lists them.
Supported(m, t) ==
    /\ m = "facebook/mbart-large-en-ro" => t = "wmt16-en-ro"
    /\ m \in {"facebook/mbart-large-50-one-to-many-mmt",
              "facebook/wmt21-dense-24-wide-en-x"} => TaskSrc(t) = en_XX
    /\ m \in {"facebook/mbart-large-50-many-to-one-mmt",
              "facebook/wmt21-dense-24-wide-x-en"} => TaskTgt(t) = en_XX

\* C1: for every rostered model and every one of the four tasks, the resolver
\* returns a pair exactly when the model's restrictions hold for the task, and
\* raises (returning nothing) otherwise.
C1_ResolveSucceedsIffSupported ==
    (Resolved /\ Rostered(res.model) /\ DefinedTask(res.task)) =>
        /\ (res.out.exc = "none") <=> Supported(res.model, res.task)
        /\ res.out.exc \in {"none", "AssertionError"}
        /\ res.out.exc # "none" => res.out.ret = <<>>
        /\ res.out.exc = "none" => Len(res.out.ret) = 2

C1_Witness ==
    /\ Resolved
    /\ res.model = "facebook/wmt21-dense-24-wide-en-x"
    /\ res.task = "wmt16-de-en"
    /\ res.out.exc = "AssertionError"

\* C2: whenever the resolver succeeds, an M2M100 model gets two 2-character
\* codes, each the first two characters of the task's 5-character code; any
\* other model gets the task's 5-character codes unmodified.
C2_ReturnedCodes ==
    (Resolved /\ res.out.exc = "none") =>
        LET src == res.out.ret[1]
            tgt == res.out.ret[2]
            s5 == TaskSrc(res.task)
            t5 == TaskTgt(res.task)
        IN  IF InM2M100Roster(res.model)
            THEN /\ Len(src) = 2 /\ Len(tgt) = 2
                 /\ src = <<s5[1], s5[2]>>
                 /\ tgt = <<t5[1], t5[2]>>
            ELSE /\ Len(src) = 5 /\ Len(tgt) = 5
                 /\ src = s5 /\ tgt = t5

C2_Witness ==
    /\ Resolved
    /\ res.model = "facebook/m2m100_418M"
    /\ res.task = "wmt16-ro-en"
    /\ res.out.ret = << <<"r", "o">>, <<"e", "n">> >>

\* C3 (as stated): the resolver fails, returning no pair, whenever the task
\* is not a key of the task table or the model id is in no roster.
C3_UnknownIdentifierFails ==
    (Resolved /\ (~DefinedTask(res.task) \/ ~Rostered(res.model))) =>
        (res.out.exc # "none" /\ res.out.ret = <<>>)

\* C3 (amended): the resolver fails with a TypeError, returning no pair,
\* whenever the task is not a key of the task table; for a task of the table
\* and a model id in no roster it does not fail and returns the task's
\* 5-character codes unmodified.
C3_UnknownTaskFailsUnknownModelPasses ==
    Resolved =>
        /\ ~DefinedTask(res.task) =>
              (res.out.exc = "TypeError" /\ res.out.ret = <<>>)
        /\ (DefinedTask(res.task) /\ ~Rostered(res.model)) =>
              (res.out.exc = "none"
               /\ res.out.ret = <<TaskSrc(res.task), TaskTgt(res.task)>>)

C3_Witness ==
    /\ Resolved
    /\ res.model = "t5-small"
    /\ res.task = "wmt16-en-de"
    /\ res.out.exc = "none"

(******************* properties of construction ****************************)
ModelId == self._pretrained_model_name_or_path

\* C4 (as stated): constructing with a model id in no roster fails with the
\* ValueError of model-class selection, before weights are loaded and before
\* any predict or predict_offline call.
C4_UnknownModelValueError ==
    (pc # "new" /\ ~Rostered(ModelId)) =>
        /\ pc \notin {"load", "eval", "prepared"}
        /\ self.model = NoModel
        /\ gen = NoGen
        /\ pc = "failed" => err = "ValueError"

\* C4 (amended): constructing with a model id in no roster never gets to load
\* weights and never yields an instance to call predict or predict_offline on;
\* the failure is the ValueError of model-class selection when the task is a
\* key of the task table and the tokenizer load and both language-id lookups
\* succeeded, and otherwise the earlier failure (the resolver's TypeError for
\* an unknown task, the tokenizer load's error, or the lookup's error).
C4_UnknownModelNeverPrepared ==
    (pc # "new" /\ ~Rostered(ModelId)) =>
        /\ pc \in {"device", "resolve", "tokenizer", "lang_ids", "model_cls", "failed"}
        /\ self.model = NoModel
        /\ self.additional_args = {}
        /\ gen = NoGen
        /\ pc = "failed" =>
              IF ~DefinedTask(self._task) THEN err = "TypeError"
              ELSE IF self.tokenizer = NoTokenizer THEN err = "OSError"
              ELSE IF self.src_lang_id = 0 \/ self.tgt_lang_id = 0
              THEN err \in {"AttributeError", "KeyError"}
              ELSE err = "ValueError"

C4_Witness ==
    /\ pc = "failed"
    /\ ModelId = "facebook/mbart-large-cc25"
    /\ err = "ValueError"
    /\ self.tgt_lang_id # 0
    /\ self.model = NoModel

WeightsLoaded == pc \in {"eval", "prepared"}

\* C7: the load mode follows quantize_mode: fp16, bf16, bb8, bb4 each have
\* their own, every other value loads in full precision and moves the model to
\* the selected device; bb8 and bb4 never move the model explicitly, the other
\* three always do; exactly one mode is announced.
C7_LoadModes ==
    WeightsLoaded =>
        LET q == self._quantize_mode
            m == self.model
        IN  /\ q = "fp16" =>
                  /\ m.torch_dtype = "float16" /\ m.load_in = ""
                  /\ m.device_map = "" /\ m.moved_to = prep.device
                  /\ stdout = <<"Declaring fp16 precision model">>
            /\ q = "bf16" =>
                  /\ m.torch_dtype = "bfloat16" /\ m.load_in = ""
                  /\ m.device_map = "" /\ m.moved_to = prep.device
                  /\ stdout = <<"Declaring bf16 precision model">>
            /\ q = "bb8" =>
                  /\ m.torch_dtype = "" /\ m.load_in = "8bit"
                  /\ m.device_map = "auto" /\ m.moved_to = ""
                  /\ Len(stdout) = 2
                  /\ stdout[1] = "Declaring 8-bit precision model"
            /\ q = "bb4" =>
                  /\ m.torch_dtype = "" /\ m.load_in = "4bit"
                  /\ m.device_map = "auto" /\ m.moved_to = ""
                  /\ Len(stdout) = 2
                  /\ stdout[1] = "Declaring 4-bit precision model"
            /\ q \notin {"fp16", "bf16", "bb8", "bb4"} =>
                  /\ m.torch_dtype = "" /\ m.load_in = ""
                  /\ m.device_map = "" /\ m.moved_to = prep.device
                  /\ m.device = prep.device
                  /\ stdout = <<"No model weight quantization selected. Loading in full-precision">>

C7_Witness ==
    /\ pc = "prepared"
    /\ self._quantize_mode = "int8"
    /\ self.model.moved_to = "cuda"
    /\ self.model.torch_dtype = ""
    /\ self.model.load_in = ""

\* the id the family's tokenizer gives the task's target language
TargetLangId ==
    IF InM2M100Roster(ModelId)
    THEN get_lang_id(<<TaskTgt(self._task)[1], TaskTgt(self._task)[2]>>)
    ELSE lang_code_to_id(TaskTgt(self._task))

SourceLangId ==
    IF InM2M100Roster(ModelId)
    THEN get_lang_id(<<TaskSrc(self._task)[1], TaskSrc(self._task)[2]>>)
    ELSE lang_code_to_id(TaskSrc(self._task))

ControlArgument ==
    IF ModelId = "facebook/mbart-large-en-ro"
    THEN {<<"decoder_start_token_id", TargetLangId>>}
    ELSE {<<"forced_bos_token_id", TargetLangId>>}

C8_Consistent ==
    pc = "prepared" =>
        /\ self.src_lang_id = SourceLangId /\ self.src_lang_id # 0
        /\ self.tgt_lang_id = TargetLangId /\ self.tgt_lang_id # 0
        /\ self.additional_args = ControlArgument
        /\ \A p \in 1..Len(gen.log) :
              gen.log[p].op = "generate" => gen.log[p].args = ControlArgument

C8_Unchanged ==
    pc = "prepared" =>
        /\ pc' = "prepared"
        /\ self'.src_lang_id = self.src_lang_id
        /\ self'.tgt_lang_id = self.tgt_lang_id
        /\ self'.additional_args = self.additional_args

\* C8: once prepared, through any sequence of predict and predict_offline
\* calls, the language ids and the control argument keep their values, the
\* control argument is the one of the model's family (decoder_start_token_id
\* for MBART, forced_bos_token_id for MBART50 and M2M100, both set to the
\* target language id), and every generate call is issued with it.
C8_PreparedConfigurationImmutable ==
    []C8_Consistent /\ [][C8_Unchanged]_vars

C8_Witness ==
    /\ pc = "prepared"
    /\ ModelId = "facebook/mbart-large-en-ro"
    /\ gen.kind = "predict_offline"
    /\ gen.pc = "done"
    /\ Len(gen.yielded) = 2
    /\ \E p \in 1..Len(gen.log) : gen.log[p].op = "generate"

(********************* properties of prediction ****************************)
\* what the library makes of one sentence on its own
Translation(text) ==
    Strip(DecodeRow(GenerateRow(EncodeRow(self, text), self.additional_args)))

\* position of input j in the stable ascending-length order
Rank(inputs, j) ==
    1 + Cardinality({k \in 1..Len(inputs) :
                        \/ Len(inputs[k]) < Len(inputs[j])
                        \/ (Len(inputs[k]) = Len(inputs[j]) /\ k < j)})

NumChunks(n) == (n + 31) \div 32

SizeOfChunk(n, c) == IF 32 * c <= n THEN 32 ELSE n - 32 * (c - 1)

EventsOf(op) == SelectSeq(gen.log, LAMBDA e : e.op = op)

\* C5: predict_offline yields, for n inputs, the n translations in the stable
\* ascending-length order of the inputs; the sorted inputs go through in
\* consecutive chunks of 32 and a final remainder, one generate call each.
C5_OfflineSortedChunks ==
    gen.kind = "predict_offline" =>
        LET n == Len(gen.inputs)
            calls == EventsOf("generate")
        IN  /\ Len(gen.yielded) <= n
            /\ \A j \in 1..n :
                  Rank(gen.inputs, j) <= Len(gen.yielded) =>
                      gen.yielded[Rank(gen.inputs, j)] = Translation(gen.inputs[j])
            /\ \A c \in 1..Len(calls) :
                  /\ calls[c].chunk = c
                  /\ calls[c].size = SizeOfChunk(n, c)
                  /\ calls[c].size \in 1..32
            /\ Len(calls) <= NumChunks(n)
            /\ gen.pc = "done" =>
                  (Len(gen.yielded) = n /\ Len(calls) = NumChunks(n))

C5_Witness ==
    /\ gen.kind = "predict_offline"
    /\ gen.pc = "done"
    /\ Len(gen.inputs) = 40
    /\ Len(gen.yielded) = 40
    /\ [c \in 1..2 |-> EventsOf("generate")[c].size] = <<32, 8>>
    /\ gen.yielded # [i \in 1..40 |-> Translation(gen.inputs[i])]
    /\ \E j, k \in 1..40 :
          /\ j < k /\ Len(gen.inputs[j]) = Len(gen.inputs[k])
          /\ gen.inputs[j] # gen.inputs[k]

\* C6: predict makes one encode and one generate call over the whole input,
\* whatever its size, and yields the n decoded outputs in input order.
C6_PredictOneBatchInOrder ==
    gen.kind = "predict" =>
        LET n == Len(gen.inputs)
        IN  /\ Len(EventsOf("encode")) <= 1
            /\ Len(EventsOf("generate")) <= 1
            /\ \A p \in 1..Len(gen.log) :
                  gen.log[p].op \in {"encode", "generate", "decode"} =>
                      gen.log[p].size = n
            /\ Len(gen.yielded) <= n
            /\ \A i \in 1..Len(gen.yielded) :
                  gen.yielded[i] = Translation(gen.inputs[i])
            /\ Len(gen.yielded) > 0 =>
                  (Len(EventsOf("encode")) = 1 /\ Len(EventsOf("generate")) = 1)
            /\ gen.pc = "done" =>
                  /\ Len(gen.yielded) = n
                  /\ Len(EventsOf("encode")) = 1
                  /\ Len(EventsOf("generate")) = 1

C6_Witness ==
    /\ gen.kind = "predict"
    /\ gen.pc = "done"
    /\ Len(gen.inputs) = 40
    /\ Len(gen.yielded) = 40
    /\ Len(EventsOf("generate")) = 1
    /\ \E i \in 1..39 : Len(gen.inputs[i]) > Len(gen.inputs[i + 1])

\* C9: predict_offline works through its chunks one after the other: a chunk
\* is encoded, generated and decoded back to back, its strings are yielded only
\* after that, and the next chunk is encoded only after the consumer has taken
\* every string of the chunk before; nothing runs before the consumer asks.
C9_ChunksSequentialAndLazy ==
    gen.kind = "predict_offline" =>
        /\ gen.pc \in {"created", "sort"} => gen.log = <<>>
        /\ gen.pc = "suspended" => gen.log[Len(gen.log)].op = "yield"
        /\ \A p \in 1..Len(gen.log) :
              LET e == gen.log[p]
              IN  /\ e.op = "encode" =>
                        /\ e.yielded = 32 * (e.chunk - 1)
                        /\ IF e.chunk = 1 THEN p = 1
                           ELSE /\ gen.log[p - 1].op = "yield"
                                /\ gen.log[p - 1].chunk = e.chunk - 1
                  /\ e.op = "generate" =>
                        /\ gen.log[p - 1].op = "encode"
                        /\ gen.log[p - 1].chunk = e.chunk
                        /\ gen.log[p - 1].ok
                  /\ e.op = "decode" =>
                        /\ gen.log[p - 1].op = "generate"
                        /\ gen.log[p - 1].chunk = e.chunk
                        /\ gen.log[p - 1].ok
                  /\ e.op = "yield" =>
                        /\ e.chunk = (e.yielded \div 32) + 1
                        /\ \E q \in 1..(p - 1) :
                              /\ gen.log[q].op = "decode"
                              /\ gen.log[q].chunk = e.chunk
                              /\ gen.log[q].ok
                              /\ \A r \in (q + 1)..(p - 1) : gen.log[r].op = "yield"

C9_Witness ==
    /\ gen.kind = "predict_offline"
    /\ gen.pc = "done"
    /\ Len(gen.inputs) = 65
    /\ Len(EventsOf("encode")) = 3
    /\ Len(gen.yielded) = 65

\* C10: an upstream failure of encode, generate or decode ends the generator:
\* the error reaches the consumer as it is, the call is not tried again,
\* nothing of the failing batch or chunk is yielded and nothing happens
\* afterwards (no later chunk is encoded or generated).
C10_UpstreamFailureEndsGenerator ==
    /\ gen.pc = "raised" =>
          /\ gen.exc = "UpstreamError"
          /\ Len(gen.log) > 0
          /\ ~gen.log[Len(gen.log)].ok
          /\ gen.log[Len(gen.log)].chunk = gen.chunk
          /\ Len(gen.yielded) =
                (IF gen.kind = "predict" THEN 0 ELSE 32 * (gen.chunk - 1))
    /\ gen.pc # "raised" => gen.exc = "none"
    /\ \A p \in 1..Len(gen.log) :
          ~gen.log[p].ok =>
              /\ p = Len(gen.log)
              /\ gen.pc = "raised"
              /\ gen.log[p].op \in {"encode", "generate", "decode"}
              /\ gen.log[p].yielded = Len(gen.yielded)

C10_Witness ==
    /\ gen.kind = "predict_offline"
    /\ gen.pc = "raised"
    /\ gen.chunk = 2
    /\ gen.log[Len(gen.log)].op = "generate"
    /\ Len(gen.yielded) = 32
    /\ Len(gen.inputs) = 40

\* the instance SpecPredict starts from is one the constructor produces
PreparedReached ==
    /\ pc = "prepared"
    /\ self = PreparedSelf("facebook/m2m100_418M", "wmt16-de-en")
    /\ prep = [device |-> "cpu", model_cls |-> ModelCls("facebook/m2m100_418M")]
    /\ stdout = <<DeclareLine("full")>>
====
